---- MODULE Spec2Model ----
(***************************************************************************)
(* Event & RSVP manager: the Express route handlers of the events and      *)
(* participants routers over the CouchDB document store.                   *)
(*                                                                         *)
(* Every handler is an async function: it runs synchronously up to its     *)
(* next `await` of a store call, and other requests run in between.  One   *)
(* action of the model is one store call together with the synchronous     *)
(* code that follows it up to the next await (or the response).  A request *)
(* has no effect and has seen nothing before its first store call, so a    *)
(* handler's first action also admits the request.                         *)
(***************************************************************************)
EXTENDS Integers, FiniteSets, Sequences, TLC

\* ------------------------------------------------------------------ bounds
NumUsers == 2      \* authenticated users 1..NumUsers
MaxEvents == 1     \* events ever created
MaxParts == 2      \* participants ever created
MaxRev == 2        \* highest revision an event reaches
MaxConc == 2       \* requests in flight at the same time
MaxCap == 1        \* largest maxParticipants a request body carries
MaxTime == 1       \* latest reading of the clock

\* --------------------------------------------------------------- constants
\* `maxParticipants || null`: an event without capacity stores null, which
\* `event.maxParticipants && ...` treats as false, as it does 0.
Null == 0

Users == 1..NumUsers
Slots == 1..MaxConc
Undefined == "undefined"

\* Strings a body supplies as a title, as sequences of characters: one as it
\* will be stored, one with leading whitespace, and one of whitespace only.
Titles == {<<"a">>, <<" ", "b">>}

Blank == <<" ">>

\* String.prototype.trim, which the validation chain's .trim() applies to the
\* field of the request body.
RECURSIVE TrimLeft(_)
TrimLeft(str) == IF str # <<>> /\ Head(str) = " " THEN TrimLeft(Tail(str)) ELSE str

RECURSIVE TrimRight(_)
TrimRight(str) ==
  IF str # <<>> /\ str[Len(str)] = " " THEN TrimRight(SubSeq(str, 1, Len(str) - 1)) ELSE str

Trim(str) == TrimRight(TrimLeft(str))

\* Email addresses as sequences of characters: two spellings of one address,
\* another address, and a string that is no address.
RawEmails == {<<"a", "@">>, <<"A", "@">>, <<"b", "@">>, <<"a">>}

\* isEmail(): the string has a local part, then "@".
IsEmail(str) == \E i \in 2..Len(str) : str[i] = "@"

LowerCase(c) == IF c = "A" THEN "a" ELSE IF c = "B" THEN "b" ELSE c

\* normalizeEmail(): the address in lower case.
NormalizeEmail(str) == [i \in 1..Len(str) |-> LowerCase(str[i])]

\* The email of the user document with identifier u that is in the store
\* when the server starts taking event and RSVP requests.
EmailOf(u) == <<<<"a", "b", "c", "d">>[u], "@">>

\* DB_NAMES, in the order Object.entries yields its keys.
DbKeys == <<"users", "events", "participants">>

\* The views of the design document '_design/queries' that initDatabases
\* inserts into the database of key `key`.
Views(key) ==
  IF key = "participants" THEN {"by_event", "by_user"}
  ELSE IF key = "events" THEN {"by_creator", "by_date"}
  ELSE {"by_email"}

\* A database the server does not hold, one it holds without a design
\* document, and one it holds with its views.
NoDb == [exists |-> FALSE, views |-> {}]

EmptyDb == [exists |-> TRUE, views |-> {}]

ReadyDb(key) == [exists |-> TRUE, views |-> Views(key)]

VARIABLES
  couch,         \* the server: per database, whether it exists and its views
  init,          \* where initDatabases stands
  users,         \* the users database: a set of documents
  nextUid,       \* the next identifier the store assigns to a user
  now,           \* the clock: what `new Date()` reads
  events,        \* the events database: a set of documents
  participants,  \* the participants database: a set of documents
  nextEid,       \* the next identifier the store assigns to an event
  nextPid,       \* the next identifier the store assigns to a participant
  req,           \* per slot: the handler in flight and its local variables
  inflight,      \* participant destroys of a finished delete still under way
  resp           \* the response the last step sent, if it sent one

vars ==
  <<couch, init, users, nextUid, now, events, participants, nextEid, nextPid, req, inflight,
    resp>>

\* ------------------------------------------------------------------- store
NoEvent ==
  [id |-> 0, rev |-> 0, creatorId |-> 0, title |-> <<>>, maxParticipants |-> Null,
   updatedAt |-> 0]

Has(db, id) == \E d \in db : d.id = id

Doc(db, id) == CHOOSE d \in db : d.id = id

\* participantsDB.view('queries', 'by_event', {key: eventId}): the rows whose
\* document has that eventId.
ByEvent(eventId) == {p \in participants : p.eventId = eventId}

\* participantsDB.view('queries', 'by_user', {key: userId})
ByUser(userId) == {p \in participants : p.userId = userId}

\* Mutant: the destroy is accepted whatever revision it carries.
DestroyStatusNoRevCheck(db, id, rev) == IF ~Has(db, id) THEN 404 ELSE 200

\* db.destroy(id, rev): 404 for a document that is not there, 409 for a stale
\* revision, else the document is removed.
DestroyStatus(db, id, rev) ==
  IF ~Has(db, id) THEN 404
  ELSE IF Doc(db, id).rev # rev THEN 409
  ELSE 200

\* Mutant: the write is accepted whatever revision it carries.
UpdateStatusNoRevCheck(db, id, rev) == IF ~Has(db, id) THEN 409 ELSE 201

\* db.insert(doc) of a document that carries _id and _rev (an update).
UpdateStatus(db, id, rev) ==
  IF ~Has(db, id) THEN 409
  ELSE IF Doc(db, id).rev # rev THEN 409
  ELSE 201

\* ---------------------------------------------------------------- requests
\* A body that supplies no field.
NoBody == [fields |-> {}, title |-> <<>>, maxParticipants |-> 0, creatorId |-> 0]

Idle ==
  [pc |-> "idle", kind |-> "none", user |-> 0, eid |-> 0, pid |-> 0, email |-> <<>>,
   body |-> NoBody,
   ev |-> NoEvent, rows |-> {}, pending |-> {}, failed |-> FALSE]

NoResp == [kind |-> "none", status |-> 0, error |-> ""]

Reply(kind, status, error) == [kind |-> kind, status |-> status, error |-> error]

IsIdle(s) == req[s].pc = "idle"

Quiescent == (\A s \in Slots : IsIdle(s)) /\ inflight = {}

\* The slot a newly admitted request runs in.
FreeSlot == CHOOSE s \in Slots : IsIdle(s) /\ \A t \in Slots : t < s => ~IsIdle(t)

CanAdmit == \E s \in Slots : IsIdle(s)

\* The requests in flight that await the store call `pc`.
InFlight(pc) == Cardinality({s \in Slots : req[s].pc = pc})

Init ==
  /\ couch = [i \in 1..Len(DbKeys) |-> ReadyDb(DbKeys[i])]
  /\ init = [pc |-> "done", key |-> Len(DbKeys)]
  /\ users = {[id |-> u, email |-> EmailOf(u)] : u \in Users}
  /\ nextUid = NumUsers + 1
  /\ now = 0
  /\ events = {}
  /\ participants = {}
  /\ nextEid = 1
  /\ nextPid = 1
  /\ req = [s \in Slots |-> Idle]
  /\ inflight = {}
  /\ resp = NoResp

\* ------------------------------------------------------------ request bodies
Fields == {"title", "maxParticipants", "creatorId"}

\* A JSON body of the event routes: the fields it supplies and their values
\* (a field it omits reads as undefined in the handler); a title it supplies
\* is one of `titles` or blank, a creatorId it supplies is one of `creators`
\* (no validator and no handler names that field: a client may send it).
Bodies(titles, creators) ==
  {b \in [fields : SUBSET Fields, title : titles \cup {Blank, <<>>},
          maxParticipants : 0..MaxCap, creatorId : creators \cup {0}] :
     /\ ("title" \in b.fields <=> b.title # <<>>)
     /\ ("maxParticipants" \notin b.fields => b.maxParticipants = 0)
     /\ ("creatorId" \in b.fields <=> b.creatorId # 0)}

\* The bodies over every title, over one title, and over one title with a
\* creatorId some of them supply.
AllBodies == Bodies(Titles, {})

OneTitleBodies == Bodies({<<"a">>}, {})

OwnerBodies == Bodies({<<"a">>}, Users)

\* body('title').trim().notEmpty(), body('maxParticipants').optional().isInt({min: 1})
CreateValid(b) ==
  /\ "title" \in b.fields /\ Trim(b.title) # <<>>
  /\ ("maxParticipants" \in b.fields => b.maxParticipants >= 1)

\* Mutant: a capacity below the number of participants of an event is invalid.
UpdateValidAboveCount(b) ==
  /\ ("title" \in b.fields => Trim(b.title) # <<>>)
  /\ ("maxParticipants" \in b.fields =>
        /\ b.maxParticipants >= 1
        /\ \A ev \in events : b.maxParticipants >= Cardinality(ByEvent(ev.id)))

\* body('title').optional().trim().notEmpty(), body('maxParticipants').optional().isInt({min: 1})
UpdateValid(b) ==
  /\ ("title" \in b.fields => Trim(b.title) # <<>>)
  /\ ("maxParticipants" \in b.fields => b.maxParticipants >= 1)

\* [body('eventId').trim().notEmpty()]: 0 stands for an empty eventId.
RsvpValid(eventId) == eventId # 0

\* req.body as the handler reads it: the chain's sanitizers have replaced the
\* fields they ran on.
Sanitized(b) == [b EXCEPT !.title = Trim(@)]

\* ------------------------------------------------------- handler predicates
\* Mutant: the creator check is left out.
IsCreatorAlways(ev, userId) == TRUE

\* event.creatorId !== req.userId is the 403 of update and delete.
IsCreator(ev, userId) == ev.creatorId = userId

\* Mutant: the duplicate check never fires.
AlreadyRSVPdNever(rows, userId) == FALSE

\* existing.rows.some(row => row.doc.userId === req.userId)
AlreadyRSVPd(rows, userId) == \E row \in rows : row.userId = userId

\* Mutant: the capacity check compares with > instead of >=.
EventFullOffByOne(ev, rows) ==
  ev.maxParticipants # Null /\ Cardinality(rows) > ev.maxParticipants

\* event.maxParticipants && existing.rows.length >= event.maxParticipants
EventFull(ev, rows) ==
  ev.maxParticipants # Null /\ Cardinality(rows) >= ev.maxParticipants

\* Mutant: the owner check of cancel by id is left out.
OwnsRsvpAlways(participant, userId) == TRUE

\* participant.userId !== req.userId is the 403 of cancel by id.
OwnsRsvp(participant, userId) == participant.userId = userId

\* What cancel by id answers after its get: 404 for a missing document, 403 for
\* another user's, else (200) it goes on to the destroy.
CancelCheck(userId, id) ==
  IF ~Has(participants, id) THEN 404
  ELSE IF ~OwnsRsvp(Doc(participants, id), userId) THEN 403
  ELSE 200

\* Mutant: the self check of cancel by event and user is left out.
IsSelfAlways(userId, caller) == TRUE

\* userId !== req.userId is the 403 of cancel by event and user.
IsSelf(userId, caller) == userId = caller

\* result.rows.find(row => row.doc.userId === userId): the view returns its rows
\* in document-id order, find takes the first.
Matches(rows, userId) == {row \in rows : row.userId = userId}

\* Mutant: the last matching row is taken instead of the first.
LastMatch(rows, userId) ==
  CHOOSE row \in Matches(rows, userId) :
    \A other \in Matches(rows, userId) : row.id >= other.id

FirstMatch(rows, userId) ==
  CHOOSE row \in Matches(rows, userId) :
    \A other \in Matches(rows, userId) : row.id <= other.id

\* What cancel by event and user answers after its self check and its view:
\* 403 for another user's pair, 404 when no row matches, else (200) it goes
\* on to the destroy of the first match.
PairCheck(caller, eventId, userId) ==
  IF ~IsSelf(userId, caller) THEN 403
  ELSE IF Matches(ByEvent(eventId), userId) = {} THEN 404
  ELSE 200

\* Mutant: the cascade finds no rows (the view is asked for the wrong key).
CascadeRowsNone(eventId) == {}

\* participants.rows of the delete handler: the documents the cascade destroys.
CascadeRows(eventId) == {row.id : row \in ByEvent(eventId)}

\* GET /participants/my-rsvps: the caller's rows of the by_user view.
MyRsvps(userId) == ByUser(userId)

\* Mutant: without the inner catch the failed get reaches the outer catch.
RsvpEventMissing500 == Reply("rsvp", 500, "Server error creating RSVP")

\* The catch around `eventsDB.get(eventId)` in the RSVP handler.
RsvpEventMissing == Reply("rsvp", 404, "Event not found")

\* Mutant: the update writes every field of the body, supplied or not.
UpdatedOverwrites(ev, b, time) ==
  [ev EXCEPT !.title = b.title, !.maxParticipants = b.maxParticipants, !.updatedAt = time]

\* Mutant: the update copies every field the body supplies onto the event.
UpdatedAssignsBody(ev, b, time) ==
  [ev EXCEPT
     !.title = IF b.title # <<>> THEN b.title ELSE @,
     !.maxParticipants = IF "maxParticipants" \in b.fields THEN b.maxParticipants ELSE @,
     !.creatorId = IF "creatorId" \in b.fields THEN b.creatorId ELSE @,
     !.updatedAt = time]

\* Mutant: the update leaves updatedAt as it was.
UpdatedNoRefresh(ev, b, time) ==
  [ev EXCEPT
     !.title = IF b.title # <<>> THEN b.title ELSE @,
     !.maxParticipants = IF "maxParticipants" \in b.fields THEN b.maxParticipants ELSE @]

\* The event as the update handler changes it before writing it back, from the
\* body b it reads and the clock's reading: `if (title) event.title = title`,
\* `if (maxParticipants !== undefined) ...`, `event.updatedAt = new Date()`.
Updated(ev, b, time) ==
  [ev EXCEPT
     !.title = IF b.title # <<>> THEN b.title ELSE @,
     !.maxParticipants = IF "maxParticipants" \in b.fields THEN b.maxParticipants ELSE @,
     !.updatedAt = time]

\* The participant document the RSVP handler inserts.
NewParticipant(id, ev, eventId, userId) ==
  [id |-> id, rev |-> 1, eventId |-> eventId, userId |-> userId, eventTitle |-> ev.title]

\* The event document the create handler inserts.
NewEvent(id, b, userId, time) ==
  [id |-> id, rev |-> 1, creatorId |-> userId, title |-> b.title,
   maxParticipants |-> IF b.maxParticipants # 0 THEN b.maxParticipants ELSE Null,
   updatedAt |-> time]

\* ---------------------------------------------------------------- plumbing
\* A step that sends no response.
Silent == resp' = NoResp

Run(s, r) == req' = [req EXCEPT ![s] = r]

Finish(s, r) == req' = [req EXCEPT ![s] = Idle] /\ resp' = r

\* ------------------------------------------------------------ POST /events
CreateEvent(u, b) ==
  /\ CanAdmit
  /\ IF ~CreateValid(b)
       THEN /\ resp' = Reply("createEvent", 400, Undefined)
            /\ UNCHANGED <<events, nextEid>>
       ELSE /\ nextEid <= MaxEvents
            /\ events' = events \cup {NewEvent(nextEid, Sanitized(b), u, now)}
            /\ nextEid' = nextEid + 1
            /\ resp' = Reply("createEvent", 201, Undefined)
  /\ UNCHANGED <<couch, init, users, nextUid, now, participants, nextPid, req, inflight>>

\* ------------------------------------------------------ POST /participants
\* Validation, then `event = await eventsDB.get(eventId)`.
RsvpGetEvent(u, e) ==
  /\ CanAdmit
  /\ IF ~RsvpValid(e)
       THEN resp' = Reply("rsvp", 400, Undefined) /\ UNCHANGED req
       ELSE IF ~Has(events, e)
         THEN resp' = RsvpEventMissing /\ UNCHANGED req
         ELSE /\ Run(FreeSlot, [Idle EXCEPT !.pc = "rsvpView", !.kind = "rsvp",
                                            !.user = u, !.eid = e, !.ev = Doc(events, e)])
              /\ Silent
  /\ UNCHANGED <<couch, init, users, nextUid, now, events, participants, nextEid, nextPid, inflight>>

\* `existing = await participantsDB.view(...)`, the duplicate and capacity checks.
RsvpView(s) ==
  /\ req[s].pc = "rsvpView"
  /\ LET rows == ByEvent(req[s].eid) IN
       IF AlreadyRSVPd(rows, req[s].user)
         THEN Finish(s, Reply("rsvp", 400, "Already RSVP'd to this event"))
         ELSE IF EventFull(req[s].ev, rows)
           THEN Finish(s, Reply("rsvp", 400, "Event is full"))
           ELSE /\ nextPid + InFlight("rsvpInsert") <= MaxParts
                /\ Run(s, [req[s] EXCEPT !.pc = "rsvpInsert"])
                /\ Silent
  /\ UNCHANGED <<couch, init, users, nextUid, now, events, participants, nextEid, nextPid, inflight>>

\* Mutant: building the response throws after the insert, and the catch
\* answers 500.
RsvpInsertThenThrows(s) ==
  /\ req[s].pc = "rsvpInsert"
  /\ participants' = participants \cup
       {NewParticipant(nextPid, req[s].ev, req[s].eid, req[s].user)}
  /\ nextPid' = nextPid + 1
  /\ Finish(s, Reply("rsvp", 500, "Server error creating RSVP"))
  /\ UNCHANGED <<couch, init, users, nextUid, now, events, nextEid, inflight>>

\* `response = await participantsDB.insert(participant)`, then the 201.
RsvpInsert(s) ==
  /\ req[s].pc = "rsvpInsert"
  /\ participants' = participants \cup
       {NewParticipant(nextPid, req[s].ev, req[s].eid, req[s].user)}
  /\ nextPid' = nextPid + 1
  /\ Finish(s, Reply("rsvp", 201, Undefined))
  /\ UNCHANGED <<couch, init, users, nextUid, now, events, nextEid, inflight>>

\* ------------------------------------------------- DELETE /participants/:id
\* `participant = await participantsDB.get(req.params.id)` and the owner check.
CancelGet(u, p) ==
  /\ CanAdmit
  /\ IF CancelCheck(u, p) = 404
       THEN resp' = Reply("cancel", 404, "RSVP not found") /\ UNCHANGED req
       ELSE IF CancelCheck(u, p) = 403
         THEN /\ resp' = Reply("cancel", 403, "Not authorized to cancel this RSVP")
              /\ UNCHANGED req
         ELSE /\ Run(FreeSlot, [Idle EXCEPT !.pc = "cancelDestroy", !.kind = "cancel",
                                            !.user = u, !.pid = p])
              /\ Silent
  /\ UNCHANGED <<couch, init, users, nextUid, now, events, participants, nextEid, nextPid, inflight>>

\* Mutant: the cancel answers 200 and leaves the participant in the store.
CancelDestroyKeeps(s) ==
  /\ req[s].pc = "cancelDestroy"
  /\ LET st == DestroyStatus(participants, req[s].pid, 1) IN
       /\ participants' = participants
       /\ Finish(s, IF st = 200 THEN Reply("cancel", 200, Undefined)
                    ELSE IF st = 404 THEN Reply("cancel", 404, "RSVP not found")
                    ELSE Reply("cancel", 500, "Server error cancelling RSVP"))
  /\ UNCHANGED <<couch, init, users, nextUid, now, events, nextEid, nextPid, inflight>>

\* Mutant: a destroy that finds no document counts as done.
CancelDestroyIgnoresMissing(s) ==
  /\ req[s].pc = "cancelDestroy"
  /\ LET st == DestroyStatus(participants, req[s].pid, 1) IN
       /\ participants' = IF st = 200 THEN participants \ {Doc(participants, req[s].pid)}
                          ELSE participants
       /\ Finish(s, IF st \in {200, 404} THEN Reply("cancel", 200, Undefined)
                    ELSE Reply("cancel", 500, "Server error cancelling RSVP"))
  /\ UNCHANGED <<couch, init, users, nextUid, now, events, nextEid, nextPid, inflight>>

\* `await participantsDB.destroy(req.params.id, participant._rev)`
CancelDestroy(s) ==
  /\ req[s].pc = "cancelDestroy"
  /\ LET st == DestroyStatus(participants, req[s].pid, 1) IN
       /\ participants' = IF st = 200 THEN participants \ {Doc(participants, req[s].pid)}
                          ELSE participants
       /\ Finish(s, IF st = 200 THEN Reply("cancel", 200, Undefined)
                    ELSE IF st = 404 THEN Reply("cancel", 404, "RSVP not found")
                    ELSE Reply("cancel", 500, "Server error cancelling RSVP"))
  /\ UNCHANGED <<couch, init, users, nextUid, now, events, nextEid, nextPid, inflight>>

\* --------------------- DELETE /participants/event/:eventId/user/:userId
\* The self check, `result = await participantsDB.view(...)` and the find.
CancelPairView(u, e, target) ==
  /\ CanAdmit
  /\ IF PairCheck(u, e, target) = 403
       THEN /\ resp' = Reply("cancelPair", 403, "Not authorized to cancel this RSVP")
            /\ UNCHANGED req
       ELSE IF PairCheck(u, e, target) = 404
         THEN resp' = Reply("cancelPair", 404, "RSVP not found") /\ UNCHANGED req
         ELSE /\ Run(FreeSlot, [Idle EXCEPT !.pc = "pairDestroy", !.kind = "cancelPair",
                                            !.user = u, !.eid = e,
                                            !.pid = FirstMatch(ByEvent(e), target).id])
              /\ Silent
  /\ UNCHANGED <<couch, init, users, nextUid, now, events, participants, nextEid, nextPid, inflight>>

\* `await participantsDB.destroy(participant.doc._id, participant.doc._rev)`
CancelPairDestroy(s) ==
  /\ req[s].pc = "pairDestroy"
  /\ LET st == DestroyStatus(participants, req[s].pid, 1) IN
       /\ participants' = IF st = 200 THEN participants \ {Doc(participants, req[s].pid)}
                          ELSE participants
       /\ Finish(s, IF st = 200 THEN Reply("cancelPair", 200, Undefined)
                    ELSE Reply("cancelPair", 500, "Server error cancelling RSVP"))
  /\ UNCHANGED <<couch, init, users, nextUid, now, events, nextEid, nextPid, inflight>>

\* ---------------------------------------------------------- PUT /events/:id
\* Validation, `event = await eventsDB.get(req.params.id)`, the creator check
\* and the field updates on the handler's copy.
UpdateGet(u, e, b) ==
  /\ CanAdmit
  /\ IF ~UpdateValid(b)
       THEN resp' = Reply("updateEvent", 400, Undefined) /\ UNCHANGED req
       ELSE IF ~Has(events, e)
         THEN resp' = Reply("updateEvent", 404, "Event not found") /\ UNCHANGED req
         ELSE IF ~IsCreator(Doc(events, e), u)
           THEN /\ resp' = Reply("updateEvent", 403, "Not authorized to update this event")
                /\ UNCHANGED req
           ELSE /\ Doc(events, e).rev < MaxRev
                /\ Run(FreeSlot, [Idle EXCEPT !.pc = "updateInsert", !.kind = "updateEvent",
                                              !.user = u, !.eid = e,
                                              !.body = Sanitized(b),
                                              !.ev = Updated(Doc(events, e), Sanitized(b), now)])
                /\ Silent
  /\ UNCHANGED <<couch, init, users, nextUid, now, events, participants, nextEid, nextPid, inflight>>

\* `response = await eventsDB.insert(event)`: the write carries the revision read.
UpdateInsert(s) ==
  /\ req[s].pc = "updateInsert"
  /\ LET st == UpdateStatus(events, req[s].eid, req[s].ev.rev) IN
       /\ events' = IF st = 201
                      THEN (events \ {Doc(events, req[s].eid)})
                             \cup {[req[s].ev EXCEPT !.rev = @ + 1]}
                      ELSE events
       /\ Finish(s, IF st = 201 THEN Reply("updateEvent", 200, Undefined)
                    ELSE Reply("updateEvent", 500, "Server error updating event"))
  /\ UNCHANGED <<couch, init, users, nextUid, now, participants, nextEid, nextPid, inflight>>

\* ------------------------------------------------------- DELETE /events/:id
\* `event = await eventsDB.get(req.params.id)` and the creator check.
DeleteGet(u, e) ==
  /\ CanAdmit
  /\ IF ~Has(events, e)
       THEN resp' = Reply("deleteEvent", 404, "Event not found") /\ UNCHANGED req
       ELSE IF ~IsCreator(Doc(events, e), u)
         THEN /\ resp' = Reply("deleteEvent", 403, "Not authorized to delete this event")
              /\ UNCHANGED req
         ELSE /\ Run(FreeSlot, [Idle EXCEPT !.pc = "deleteView", !.kind = "deleteEvent",
                                            !.user = u, !.eid = e, !.ev = Doc(events, e)])
              /\ Silent
  /\ UNCHANGED <<couch, init, users, nextUid, now, events, participants, nextEid, nextPid, inflight>>

\* `participants = await participantsDB.view(...)`; one destroy per row is then
\* started at once (participants.rows.map) and awaited with Promise.all.
DeleteView(s) ==
  /\ req[s].pc = "deleteView"
  /\ Run(s, [req[s] EXCEPT !.pc = "cascade",
                           !.rows = CascadeRows(req[s].eid),
                           !.pending = CascadeRows(req[s].eid)])
  /\ Silent
  /\ UNCHANGED <<couch, init, users, nextUid, now, events, participants, nextEid, nextPid, inflight>>

\* The store serves one of the destroys the cascade started.
CascadeDestroy(s, p) ==
  /\ req[s].pc = "cascade"
  /\ p \in req[s].pending
  /\ LET st == DestroyStatus(participants, p, 1) IN
       /\ participants' = IF st = 200 THEN participants \ {Doc(participants, p)}
                          ELSE participants
       /\ Run(s, [req[s] EXCEPT !.pending = @ \ {p},
                                !.failed = @ \/ st # 200])
  /\ Silent
  /\ UNCHANGED <<couch, init, users, nextUid, now, events, nextEid, nextPid, inflight>>

\* Promise.all settles when every destroy has succeeded or as soon as one has
\* failed (the catch logs it); then `await eventsDB.destroy(req.params.id,
\* event._rev)` and the response.  Destroys not yet served stay under way.
DeleteDestroy(s) ==
  /\ req[s].pc = "cascade"
  /\ req[s].pending = {} \/ req[s].failed
  /\ LET st == DestroyStatus(events, req[s].eid, req[s].ev.rev) IN
       /\ events' = IF st = 200 THEN events \ {Doc(events, req[s].eid)} ELSE events
       /\ Finish(s, IF st = 200 THEN Reply("deleteEvent", 200, Undefined)
                    ELSE IF st = 404 THEN Reply("deleteEvent", 404, "Event not found")
                    ELSE Reply("deleteEvent", 500, "Server error deleting event"))
  /\ inflight' = inflight \cup req[s].pending
  /\ UNCHANGED <<couch, init, users, nextUid, now, participants, nextEid, nextPid>>

\* The store serves a destroy whose request has already been answered.
LateDestroy(p) ==
  /\ p \in inflight
  /\ inflight' = inflight \ {p}
  /\ participants' = IF DestroyStatus(participants, p, 1) = 200
                       THEN participants \ {Doc(participants, p)}
                       ELSE participants
  /\ Silent
  /\ UNCHANGED <<couch, init, users, nextUid, now, events, nextEid, nextPid, req>>

\* ----------------------------------------------------------- store faults
\* A store call fails (the store is down, the connection breaks, the store
\* answers 500): nano rejects the promise with an error whose statusCode is
\* neither 404 nor 409, and the call has had no effect on the store.  Each
\* action is the failure of one store call together with the code that
\* follows it up to the next await (or the response).

\* Valid body, then `await eventsDB.insert(event)` fails.
CreateEventFails(u, b) ==
  /\ CanAdmit
  /\ CreateValid(b)
  /\ resp' = Reply("createEvent", 500, "Server error creating event")
  /\ UNCHANGED <<couch, init, users, nextUid, now, events, participants, nextEid, nextPid, req, inflight>>

\* `await eventsDB.get(eventId)` fails: the catch around it answers 404
\* whatever the error is.
RsvpGetEventFails(u, e) ==
  /\ CanAdmit
  /\ RsvpValid(e)
  /\ resp' = RsvpEventMissing
  /\ UNCHANGED <<couch, init, users, nextUid, now, events, participants, nextEid, nextPid, req, inflight>>

\* `await participantsDB.view(...)` fails: the catch around the view and the
\* two checks is empty ("View might not exist, continue"), so the handler
\* goes on to the insert (`failed` notes that an error was swallowed).
RsvpViewFails(s) ==
  /\ req[s].pc = "rsvpView"
  /\ nextPid + InFlight("rsvpInsert") <= MaxParts
  /\ Run(s, [req[s] EXCEPT !.pc = "rsvpInsert", !.failed = TRUE])
  /\ Silent
  /\ UNCHANGED <<couch, init, users, nextUid, now, events, participants, nextEid, nextPid, inflight>>

\* `await participantsDB.insert(participant)` fails.
RsvpInsertFails(s) ==
  /\ req[s].pc = "rsvpInsert"
  /\ Finish(s, Reply("rsvp", 500, "Server error creating RSVP"))
  /\ UNCHANGED <<couch, init, users, nextUid, now, events, participants, nextEid, nextPid, inflight>>

\* `await participantsDB.get(req.params.id)` fails.
CancelGetFails(u, p) ==
  /\ CanAdmit
  /\ resp' = Reply("cancel", 500, "Server error cancelling RSVP")
  /\ UNCHANGED <<couch, init, users, nextUid, now, events, participants, nextEid, nextPid, req, inflight>>

\* `await participantsDB.destroy(req.params.id, participant._rev)` fails.
CancelDestroyFails(s) ==
  /\ req[s].pc = "cancelDestroy"
  /\ Finish(s, Reply("cancel", 500, "Server error cancelling RSVP"))
  /\ UNCHANGED <<couch, init, users, nextUid, now, events, participants, nextEid, nextPid, inflight>>

\* The self check passes, then `await participantsDB.view(...)` fails.
CancelPairViewFails(u, e, target) ==
  /\ CanAdmit
  /\ IsSelf(target, u)
  /\ resp' = Reply("cancelPair", 500, "Server error cancelling RSVP")
  /\ UNCHANGED <<couch, init, users, nextUid, now, events, participants, nextEid, nextPid, req, inflight>>

\* `await participantsDB.destroy(participant.doc._id, ...)` fails.
CancelPairDestroyFails(s) ==
  /\ req[s].pc = "pairDestroy"
  /\ Finish(s, Reply("cancelPair", 500, "Server error cancelling RSVP"))
  /\ UNCHANGED <<couch, init, users, nextUid, now, events, participants, nextEid, nextPid, inflight>>

\* Valid body, then `await eventsDB.get(req.params.id)` fails.
UpdateGetFails(u, e, b) ==
  /\ CanAdmit
  /\ UpdateValid(b)
  /\ resp' = Reply("updateEvent", 500, "Server error updating event")
  /\ UNCHANGED <<couch, init, users, nextUid, now, events, participants, nextEid, nextPid, req, inflight>>

\* `await eventsDB.insert(event)` fails.
UpdateInsertFails(s) ==
  /\ req[s].pc = "updateInsert"
  /\ Finish(s, Reply("updateEvent", 500, "Server error updating event"))
  /\ UNCHANGED <<couch, init, users, nextUid, now, events, participants, nextEid, nextPid, inflight>>

\* `await eventsDB.get(req.params.id)` of the delete handler fails.
DeleteGetFails(u, e) ==
  /\ CanAdmit
  /\ resp' = Reply("deleteEvent", 500, "Server error deleting event")
  /\ UNCHANGED <<couch, init, users, nextUid, now, events, participants, nextEid, nextPid, req, inflight>>

\* `await participantsDB.view(...)` of the delete handler fails: the inner
\* catch logs it, no destroy is started, the event destroy is next.
DeleteViewFails(s) ==
  /\ req[s].pc = "deleteView"
  /\ Run(s, [req[s] EXCEPT !.pc = "cascade", !.failed = TRUE])
  /\ Silent
  /\ UNCHANGED <<couch, init, users, nextUid, now, events, participants, nextEid, nextPid, inflight>>

\* One of the destroys the cascade started fails: Promise.all rejects.
CascadeDestroyFails(s, p) ==
  /\ req[s].pc = "cascade"
  /\ p \in req[s].pending
  /\ Run(s, [req[s] EXCEPT !.pending = @ \ {p}, !.failed = TRUE])
  /\ Silent
  /\ UNCHANGED <<couch, init, users, nextUid, now, events, participants, nextEid, nextPid, inflight>>

\* `await eventsDB.destroy(req.params.id, event._rev)` fails.
DeleteDestroyFails(s) ==
  /\ req[s].pc = "cascade"
  /\ req[s].pending = {} \/ req[s].failed
  /\ Finish(s, Reply("deleteEvent", 500, "Server error deleting event"))
  /\ inflight' = inflight \cup req[s].pending
  /\ UNCHANGED <<couch, init, users, nextUid, now, events, participants, nextEid, nextPid>>

\* A destroy whose request has already been answered fails.
LateDestroyFails(p) ==
  /\ p \in inflight
  /\ inflight' = inflight \ {p}
  /\ Silent
  /\ UNCHANGED <<couch, init, users, nextUid, now, events, participants, nextEid, nextPid, req>>

\* ---------------------------------------------------------- authentication
\* What a request presents in its Authorization header: nothing, a token that
\* jwt.verify rejects (malformed, wrong signature, expired), or a token that
\* verifies and names the user `id`.
Credentials ==
  {[kind |-> "none", id |-> 0], [kind |-> "invalid", id |-> 0]}
    \cup {[kind |-> "valid", id |-> u] : u \in Users}

\* The auth middleware: the response it sends, or status 200 for next().
Authenticate(cred) ==
  IF cred.kind = "none" THEN Reply("auth", 401, "Authentication required")
  ELSE IF cred.kind = "invalid" THEN Reply("auth", 401, "Invalid token")
  ELSE IF ~Has(users, cred.id) THEN Reply("auth", 401, "User not found")
  ELSE Reply("auth", 200, Undefined)

\* req.userId of the requests that reach a handler.
Callers == {cred.id : cred \in {c \in Credentials : Authenticate(c).status = 200}}

\* The middleware answers the request itself; no handler runs.
AuthReject(cred) ==
  /\ Authenticate(cred).status # 200
  /\ resp' = Authenticate(cred)
  /\ UNCHANGED <<couch, init, users, nextUid, now, events, participants, nextEid, nextPid, req, inflight>>

\* `await usersDB.get(decoded.id)` fails: the catch around it answers 401
\* "User not found" whatever the error is.
AuthGetFails(cred) ==
  /\ cred.kind = "valid"
  /\ resp' = Reply("auth", 401, "User not found")
  /\ UNCHANGED <<couch, init, users, nextUid, now, events, participants, nextEid, nextPid, req, inflight>>

\* A user document is removed from the users database (no route does it; the
\* middleware provides for it).
RemoveUser(u) ==
  /\ Has(users, u)
  /\ users' = users \ {Doc(users, u)}
  /\ Silent
  /\ UNCHANGED <<couch, init, nextUid, now, events, participants, nextEid, nextPid, req,
                 inflight>>

\* ------------------------------------------------------ POST /auth/register
\* The lengths of the passwords and the names that registration bodies carry.
PasswordLengths == {5, 6}

Names == {<<"a">>, Blank}

Registrations == [email : RawEmails, password : PasswordLengths, name : Names]

\* body('email').isEmail().normalizeEmail(), body('password').isLength({min: 6}),
\* body('name').trim().notEmpty()
RegisterValid(b) == IsEmail(b.email) /\ b.password >= 6 /\ Trim(b.name) # <<>>

\* usersDB.view('queries', 'by_email', {key: email})
ByEmail(email) == {u \in users : u.email = email}

\* result.rows.length > 0
UserExists(email) == ByEmail(email) # {}

\* Validation, `result = await usersDB.view(...)` and the check for an
\* existing user; then the handler awaits bcrypt.hash.
RegisterView(b) ==
  /\ CanAdmit
  /\ IF ~RegisterValid(b)
       THEN resp' = Reply("register", 400, Undefined) /\ UNCHANGED req
       ELSE IF UserExists(NormalizeEmail(b.email))
         THEN resp' = Reply("register", 400, "User already exists") /\ UNCHANGED req
         ELSE /\ nextUid + InFlight("registerHash") + InFlight("registerInsert") <= NumUsers
              /\ Run(FreeSlot, [Idle EXCEPT !.pc = "registerHash", !.kind = "register",
                                            !.email = NormalizeEmail(b.email)])
              /\ Silent
  /\ UNCHANGED <<couch, init, users, nextUid, now, events, participants, nextEid, nextPid, inflight>>

\* `hashedPassword = await bcrypt.hash(password, 10)` resolves; the handler
\* builds the user document and calls usersDB.insert.
RegisterHash(s) ==
  /\ req[s].pc = "registerHash"
  /\ Run(s, [req[s] EXCEPT !.pc = "registerInsert"])
  /\ Silent
  /\ UNCHANGED <<couch, init, users, nextUid, now, events, participants, nextEid, nextPid, inflight>>

\* `response = await usersDB.insert(user)`: the store assigns the identifier.
RegisterInsert(s) ==
  /\ req[s].pc = "registerInsert"
  /\ users' = users \cup {[id |-> nextUid, email |-> req[s].email]}
  /\ nextUid' = nextUid + 1
  /\ Finish(s, Reply("register", 201, Undefined))
  /\ UNCHANGED <<couch, init, now, events, participants, nextEid, nextPid, inflight>>

\* --------------------------------------------------------- POST /auth/login
\* body('email').isEmail().normalizeEmail(), body('password').notEmpty()
LoginValid(b) == IsEmail(b.email) /\ b.password > 0

\* The bodies of login requests: a password has a length, 0 for an empty one.
Logins == [email : RawEmails, password : {0} \cup PasswordLengths]

\* result.rows[0].doc: the first row of the view, in identifier order.
FirstUser(email) ==
  CHOOSE u \in ByEmail(email) : \A other \in ByEmail(email) : u.id <= other.id

\* Validation, `result = await usersDB.view(...)`; without a row 401, else the
\* handler awaits bcrypt.compare with the first row's document.
LoginView(b) ==
  /\ CanAdmit
  /\ IF ~LoginValid(b)
       THEN resp' = Reply("login", 400, Undefined) /\ UNCHANGED req
       ELSE IF ~UserExists(NormalizeEmail(b.email))
         THEN resp' = Reply("login", 401, "Invalid credentials") /\ UNCHANGED req
         ELSE /\ Run(FreeSlot, [Idle EXCEPT !.pc = "loginCompare", !.kind = "login",
                                            !.user = FirstUser(NormalizeEmail(b.email)).id,
                                            !.email = NormalizeEmail(b.email)])
              /\ Silent
  /\ UNCHANGED <<couch, init, users, nextUid, now, events, participants, nextEid, nextPid, inflight>>

\* `isMatch = await bcrypt.compare(password, user.password)` resolves: 401
\* without a match, else the token and 200.
LoginCompare(s, isMatch) ==
  /\ req[s].pc = "loginCompare"
  /\ Finish(s, IF isMatch THEN Reply("login", 200, Undefined)
               ELSE Reply("login", 401, "Invalid credentials"))
  /\ UNCHANGED <<couch, init, users, nextUid, now, events, participants, nextEid, nextPid, inflight>>

\* ------------------------------------------------------------ initDatabases
\* Where the loop over DB_NAMES goes after the database of index k.
NextDb(k) ==
  IF k < Len(DbKeys) THEN [pc |-> "get", key |-> k + 1] ELSE [pc |-> "done", key |-> k]

\* The server starts (again, after a run of initDatabases that ended or
\* threw): initDatabases begins with the first database.
StartServer ==
  /\ init.pc \in {"done", "failed"}
  /\ init' = [pc |-> "get", key |-> 1]
  /\ UNCHANGED <<couch, users, nextUid, now, events, participants, nextEid, nextPid, req, inflight, resp>>

\* `await couch.db.get(dbName)`: the database exists and the loop goes on to
\* the next one, or the error is a 404 and the catch goes on to create it.
InitGet ==
  /\ init.pc = "get"
  /\ init' = IF couch[init.key].exists THEN NextDb(init.key) ELSE [init EXCEPT !.pc = "create"]
  /\ UNCHANGED <<couch, users, nextUid, now, events, participants, nextEid, nextPid, req, inflight, resp>>

\* `await couch.db.create(dbName)`
InitCreate ==
  /\ init.pc = "create"
  /\ couch' = [couch EXCEPT ![init.key] = EmptyDb]
  /\ init' = [init EXCEPT !.pc = "insert"]
  /\ UNCHANGED <<users, nextUid, now, events, participants, nextEid, nextPid, req, inflight, resp>>

\* `await db.insert({_id: '_design/queries', views: {...}})`
InitInsert ==
  /\ init.pc = "insert"
  /\ couch' = [couch EXCEPT ![init.key] = ReadyDb(DbKeys[init.key])]
  /\ init' = NextDb(init.key)
  /\ UNCHANGED <<users, nextUid, now, events, participants, nextEid, nextPid, req, inflight, resp>>

\* One of the three calls fails (the get with an error that is no 404): the
\* error is rethrown and initDatabases ends with it; the call had no effect.
InitFails ==
  /\ init.pc \in {"get", "create", "insert"}
  /\ init' = [init EXCEPT !.pc = "failed"]
  /\ UNCHANGED <<couch, users, nextUid, now, events, participants, nextEid, nextPid, req, inflight, resp>>

\* ------------------------------------------------------------------- clock
\* Time passes.
Tick ==
  /\ now < MaxTime
  /\ now' = now + 1
  /\ Silent
  /\ UNCHANGED <<couch, init, users, nextUid, events, participants, nextEid, nextPid, req, inflight>>

\* ----------------------------------------------------------- specifications
EventIds == 0..nextEid

ParticipantIds == 1..nextPid

\* A request arrives, when `admit` allows it, with a credential that the auth
\* middleware accepts and a body of `bodies` where the route takes one: its
\* handler runs up to and including its first store call.
Arrive(admit, bodies) ==
  \/ admit /\ \E u \in Callers, b \in bodies : CreateEvent(u, b)
  \/ admit /\ \E u \in Callers, e \in EventIds : RsvpGetEvent(u, e)
  \/ admit /\ \E u \in Callers, p \in ParticipantIds : CancelGet(u, p)
  \/ admit /\ \E u \in Callers, e \in EventIds \ {0}, t \in Users : CancelPairView(u, e, t)
  \/ admit /\ \E u \in Callers, e \in EventIds \ {0}, b \in bodies : UpdateGet(u, e, b)
  \/ admit /\ \E u \in Callers, e \in EventIds \ {0} : DeleteGet(u, e)

\* A request in flight gets the answer of the store call it awaits.
Resume ==
  \/ \E s \in Slots : RsvpView(s)
  \/ \E s \in Slots : RsvpInsert(s)
  \/ \E s \in Slots : CancelDestroy(s)
  \/ \E s \in Slots : CancelPairDestroy(s)
  \/ \E s \in Slots : UpdateInsert(s)
  \/ \E s \in Slots : DeleteView(s)
  \/ \E s \in Slots, p \in ParticipantIds : CascadeDestroy(s, p)
  \/ \E s \in Slots : DeleteDestroy(s)

\* The store serves what a finished request left under way.
Late == \E p \in ParticipantIds : LateDestroy(p)

\* Requests overlap freely; event bodies carry one title, and the clock (which
\* the handlers store and never compare) stands still.
Next == Arrive(TRUE, OneTitleBodies) \/ Resume \/ Late

Spec == Init /\ [][Next]_vars

\* A request arrives and the first store call of its handler fails.
ArriveFault(admit, bodies) ==
  \/ admit /\ \E u \in Callers, b \in bodies : CreateEventFails(u, b)
  \/ admit /\ \E u \in Callers, e \in EventIds : RsvpGetEventFails(u, e)
  \/ admit /\ \E u \in Callers, p \in ParticipantIds : CancelGetFails(u, p)
  \/ admit /\ \E u \in Callers, e \in EventIds \ {0}, t \in Users :
                  CancelPairViewFails(u, e, t)
  \/ admit /\ \E u \in Callers, e \in EventIds \ {0}, b \in bodies : UpdateGetFails(u, e, b)
  \/ admit /\ \E u \in Callers, e \in EventIds \ {0} : DeleteGetFails(u, e)

\* The store call a request in flight awaits fails.
ResumeFault ==
  \/ \E s \in Slots : RsvpViewFails(s)
  \/ \E s \in Slots : RsvpInsertFails(s)
  \/ \E s \in Slots : CancelDestroyFails(s)
  \/ \E s \in Slots : CancelPairDestroyFails(s)
  \/ \E s \in Slots : UpdateInsertFails(s)
  \/ \E s \in Slots : DeleteViewFails(s)
  \/ \E s \in Slots, p \in ParticipantIds : CascadeDestroyFails(s, p)
  \/ \E s \in Slots : DeleteDestroyFails(s)

LateFault == \E p \in ParticipantIds : LateDestroyFails(p)

\* A request arrives and the auth middleware answers it.
Reject(admit) ==
  \/ admit /\ \E cred \in Credentials : AuthReject(cred)

RejectFault(admit) ==
  \/ admit /\ \E cred \in Credentials : AuthGetFails(cred)

\* One request at a time (the next arrives when the destroys that a delete
\* left under way have been served too), and any store call may fail.
NextSeqFault ==
  \/ Arrive(Quiescent, OneTitleBodies) \/ Resume \/ Late
  \/ ArriveFault(Quiescent, OneTitleBodies) \/ ResumeFault \/ LateFault
  \/ Reject(Quiescent) \/ RejectFault(Quiescent)

SpecSeqFault == Init /\ [][NextSeqFault]_vars

\* One request at a time, while user documents are removed.
NextAuth ==
  \/ Arrive(Quiescent, OneTitleBodies) \/ Resume
  \/ Reject(Quiescent)
  \/ \E u \in Users : RemoveUser(u)

SpecAuth == Init /\ [][NextAuth]_vars

\* Requests run one at a time: a request arrives only when none is in flight
\* (and then no destroy is ever left under way); time passes in between.
NextSeq == Arrive(Quiescent, AllBodies) \/ Resume \/ Tick

SpecSeq == Init /\ [][NextSeq]_vars

\* Requests run one at a time, and the bodies of the event routes may carry a
\* creatorId.
NextOwner == Arrive(Quiescent, OwnerBodies) \/ Resume

SpecOwner == Init /\ [][NextOwner]_vars

\* The users database is empty when the server starts taking registrations.
InitRegister ==
  /\ couch = [i \in 1..Len(DbKeys) |-> ReadyDb(DbKeys[i])]
  /\ init = [pc |-> "done", key |-> Len(DbKeys)]
  /\ users = {}
  /\ nextUid = 1
  /\ now = 0
  /\ events = {}
  /\ participants = {}
  /\ nextEid = 1
  /\ nextPid = 1
  /\ req = [s \in Slots |-> Idle]
  /\ inflight = {}
  /\ resp = NoResp

\* Registration and login requests overlap freely.
NextRegister ==
  \/ \E b \in Registrations : RegisterView(b)
  \/ \E s \in Slots : RegisterHash(s)
  \/ \E s \in Slots : RegisterInsert(s)
  \/ \E b \in Logins : LoginView(b)
  \/ \E s \in Slots, isMatch \in BOOLEAN : LoginCompare(s, isMatch)

SpecRegister == InitRegister /\ [][NextRegister]_vars

\* The server starts for the first time or after earlier runs: each database
\* is absent, or there without a design document, or there with its views.
InitBoot ==
  /\ couch \in [1..Len(DbKeys) -> {NoDb, EmptyDb} \cup {ReadyDb(DbKeys[i]) : i \in 1..Len(DbKeys)}]
  /\ \A i \in 1..Len(DbKeys) : couch[i] \in {NoDb, EmptyDb, ReadyDb(DbKeys[i])}
  /\ init = [pc |-> "get", key |-> 1]
  /\ users = {}
  /\ nextUid = 1
  /\ now = 0
  /\ events = {}
  /\ participants = {}
  /\ nextEid = 1
  /\ nextPid = 1
  /\ req = [s \in Slots |-> Idle]
  /\ inflight = {}
  /\ resp = NoResp

\* initDatabases runs, its store calls may fail, and the server may be
\* started again.
NextBoot == StartServer \/ InitGet \/ InitCreate \/ InitInsert \/ InitFails

SpecBoot == InitBoot /\ [][NextBoot]_vars

\* ------------------------------------------------------------------ claims
\* C1: an event created with capacity C (and not updated since) whose RSVPs
\* all come from distinct users never has more than C participants, however
\* the RSVP requests interleave.
C1_CapacityNeverExceeded ==
  \A e \in events :
    LET rsvps == {p \in participants : p.eventId = e.id} IN
      (/\ e.maxParticipants # Null
       /\ e.rev = 1
       /\ \A p, q \in rsvps : p.userId = q.userId => p.id = q.id)
        => Cardinality(rsvps) <= e.maxParticipants

\* C2: there is at most one participant per (eventId, userId) pair.
C2_OnePerPair ==
  \A p, q \in participants :
    (p.eventId = q.eventId /\ p.userId = q.userId) => p.id = q.id

\* C3: every participant references an event that is in the store.
C3_NoOrphans ==
  \A p \in participants : \E e \in events : e.id = p.eventId

\* C4: one request at a time.  The creator's delete of an event answers 200
\* and leaves neither the event nor any participant the cascade found: a
\* cancel of one of them by id answers 404 and no my-rsvps lists the event;
\* and at all times an event that has been deleted has no participant.
C4_DeleteRemovesAll ==
  /\ [](\A e \in 1..(nextEid - 1) :
          ~Has(events, e) =>
            /\ {p \in participants : p.eventId = e} = {}
            /\ \A u \in Users : \A r \in MyRsvps(u) : r.eventId # e)
  /\ [][\A s \in Slots :
          (/\ req[s].kind = "deleteEvent"
           /\ req[s].pc = "cascade"
           /\ req[s].user = req[s].ev.creatorId
           /\ req'[s].pc = "idle")
            => /\ resp' = Reply("deleteEvent", 200, Undefined)
               /\ ~Has(events', req[s].eid)
               /\ {p \in participants' : p.eventId = req[s].eid} = {}
               /\ \A p \in req[s].rows, u \in Users : CancelCheck(u, p)' = 404
               /\ \A u \in Users : \A r \in MyRsvps(u)' : r.eventId # req[s].eid]_vars

\* C4 happens: the cascade of a delete has destroyed every participant it
\* found and the event destroy is next.
C4_Witness ==
  \E s \in Slots :
    /\ req[s].pc = "cascade"
    /\ req[s].rows # {}
    /\ req[s].pending = {}
    /\ ~req[s].failed
    /\ \A p \in req[s].rows : ~Has(participants, p)

\* The participants of user u for event e.
Held(u, e) == {p \in participants : p.eventId = e /\ p.userId = u}

\* C5: one request at a time.  An RSVP request of a user who holds a
\* participant for the event gets as far as the duplicate check, is answered
\* 400 "Already RSVP'd to this event" there, and inserts nothing.
C5_SecondRsvpConflicts ==
  [][/\ \A u \in Users, e \in EventIds :
          (Held(u, e) # {} /\ RsvpGetEvent(u, e))
            => /\ req'[FreeSlot].pc = "rsvpView"
               /\ participants' = participants
     /\ \A s \in Slots :
          (/\ req[s].pc = "rsvpView"
           /\ Held(req[s].user, req[s].eid) # {}
           /\ req'[s] # req[s])
            => /\ resp' = Reply("rsvp", 400, "Already RSVP'd to this event")
               /\ req'[s].pc = "idle"
               /\ participants' = participants]_vars

\* C5 happens: the answer just sent is the duplicate conflict, to a user who
\* holds a participant, and nothing is in flight.
C5_Witness ==
  /\ resp = Reply("rsvp", 400, "Already RSVP'd to this event")
  /\ Quiescent
  /\ \E u \in Users, e \in EventIds : Cardinality(Held(u, e)) = 1

\* C6: one request at a time.  An RSVP request of a user without a
\* participant for the event is answered 400 "Event is full", with the
\* participants unchanged, when the event has a capacity and its participant
\* count has reached it; otherwise it goes on to insert one participant and
\* is answered 201 (so never rejected for an event without capacity).
C6_AdmittedIffBelowCapacity ==
  [][\A s \in Slots :
       LET e == req[s].eid
           n == Cardinality({p \in participants : p.eventId = e})
       IN /\ (/\ req[s].pc = "rsvpView"
              /\ Held(req[s].user, e) = {}
              /\ req'[s] # req[s])
               => /\ Has(events, e)
                  /\ IF Doc(events, e).maxParticipants # Null
                          /\ n >= Doc(events, e).maxParticipants
                       THEN /\ resp' = Reply("rsvp", 400, "Event is full")
                            /\ req'[s].pc = "idle"
                            /\ participants' = participants
                       ELSE req'[s].pc = "rsvpInsert"
          /\ (req[s].pc = "rsvpInsert" /\ req'[s] # req[s])
               => /\ resp' = Reply("rsvp", 201, Undefined)
                  /\ Has(events, e)
                  /\ Doc(events, e).maxParticipants = Null
                       \/ n < Doc(events, e).maxParticipants
                  /\ Held(req[s].user, e) = {}
                  /\ \E p \in participants' :
                       /\ p \notin participants
                       /\ p.eventId = e /\ p.userId = req[s].user
                       /\ participants' = participants \cup {p}]_vars

\* C6 happens: an event is at its capacity and the answer just sent is
\* "Event is full".
C6_Witness ==
  /\ resp = Reply("rsvp", 400, "Event is full")
  /\ Quiescent
  /\ \E e \in events :
       /\ e.maxParticipants # Null
       /\ Cardinality({p \in participants : p.eventId = e.id}) = e.maxParticipants

\* C7 as stated: an update or a delete of an event by a caller who is not its
\* creator is answered 403 and changes no event and no participant.
C7_NonCreatorGets403 ==
  [][/\ \A u \in Users, e \in EventIds \ {0}, b \in AllBodies :
          (Has(events, e) /\ Doc(events, e).creatorId # u /\ UpdateGet(u, e, b))
            => /\ resp' = Reply("updateEvent", 403, "Not authorized to update this event")
               /\ events' = events /\ participants' = participants
     /\ \A u \in Users, e \in EventIds \ {0} :
          (Has(events, e) /\ Doc(events, e).creatorId # u /\ DeleteGet(u, e))
            => /\ resp' = Reply("deleteEvent", 403, "Not authorized to delete this event")
               /\ events' = events /\ participants' = participants]_vars

\* C7 amended: such an update is answered 400 when its body fails validation
\* and 403 otherwise, such a delete 403; either way the request ends there and
\* changes no event and no participant.
C7_NonCreatorRejected ==
  [][/\ \A u \in Users, e \in EventIds \ {0}, b \in AllBodies :
          (Has(events, e) /\ Doc(events, e).creatorId # u /\ UpdateGet(u, e, b))
            => /\ resp' = IF UpdateValid(b)
                            THEN Reply("updateEvent", 403, "Not authorized to update this event")
                            ELSE Reply("updateEvent", 400, Undefined)
               /\ req' = req
               /\ events' = events /\ participants' = participants
     /\ \A u \in Users, e \in EventIds \ {0} :
          (Has(events, e) /\ Doc(events, e).creatorId # u /\ DeleteGet(u, e))
            => /\ resp' = Reply("deleteEvent", 403, "Not authorized to delete this event")
               /\ req' = req
               /\ events' = events /\ participants' = participants]_vars

\* C7 happens: an event is in the store and the answer just sent is the 403 of a
\* delete.
C7_Witness ==
  /\ resp = Reply("deleteEvent", 403, "Not authorized to delete this event")
  /\ events # {}

\* C8: every participant that a step of a cancel request (by id or by event
\* and user) removes belongs to the caller of that request, and the step with
\* which a cancel request arrives removes none.
C8_CancelOnlyOwn ==
  [][/\ \A s \in Slots :
          (req[s].kind \in {"cancel", "cancelPair"} /\ req'[s] # req[s])
            => /\ \A p \in participants \ participants' : p.userId = req[s].user
               /\ participants' \subseteq participants
     /\ \A u \in Users, p \in ParticipantIds :
          CancelGet(u, p) => participants' = participants
     /\ \A u \in Users, e \in EventIds \ {0}, t \in Users :
          CancelPairView(u, e, t) => participants' = participants]_vars

\* C8 happens: a cancel by event and user has succeeded while another
\* user's participant is in the store.
C8_Witness ==
  /\ resp = Reply("cancelPair", 200, Undefined)
  /\ participants # {}

\* C9: a cancel by id whose document is not there (at its get, or at its
\* destroy) is answered 404, a cancel by event and user whose lookup finds no
\* participant of the caller for the event is answered 404, a cancel by id
\* of another user's participant is answered 403; each ends the request and
\* leaves events and participants as they were.
C9_CancelMissingOrForeign ==
  [][/\ \A u \in Users, p \in ParticipantIds :
          (~Has(participants, p) /\ CancelGet(u, p))
            => /\ resp' = Reply("cancel", 404, "RSVP not found")
               /\ req' = req
               /\ events' = events /\ participants' = participants
     /\ \A s \in Slots :
          (/\ req[s].pc = "cancelDestroy"
           /\ ~Has(participants, req[s].pid)
           /\ req'[s] # req[s])
            => /\ resp' = Reply("cancel", 404, "RSVP not found")
               /\ req'[s].pc = "idle"
               /\ events' = events /\ participants' = participants
     /\ \A u \in Users, e \in EventIds \ {0} :
          (Held(u, e) = {} /\ CancelPairView(u, e, u))
            => /\ resp' = Reply("cancelPair", 404, "RSVP not found")
               /\ req' = req
               /\ events' = events /\ participants' = participants
     /\ \A u \in Users, p \in ParticipantIds :
          (/\ Has(participants, p)
           /\ Doc(participants, p).userId # u
           /\ CancelGet(u, p))
            => /\ resp' = Reply("cancel", 403, "Not authorized to cancel this RSVP")
               /\ req' = req
               /\ events' = events /\ participants' = participants]_vars

\* C9 happens: a participant is in the store and the answer just sent is the 403
\* of a cancel by id.
C9_Witness ==
  /\ resp = Reply("cancel", 403, "Not authorized to cancel this RSVP")
  /\ participants # {}

\* C10: an RSVP request that names an event that is not in the store is
\* answered 404 "Event not found", ends there and inserts nothing.
C10_RsvpUnknownEvent ==
  [][\A u \in Users, e \in EventIds \ {0} :
       (~Has(events, e) /\ RsvpGetEvent(u, e))
         => /\ resp' = Reply("rsvp", 404, "Event not found")
            /\ req' = req
            /\ participants' = participants /\ nextPid' = nextPid]_vars

\* C10 happens: no event is in the store and the answer just sent is that 404.
C10_Witness ==
  /\ resp = Reply("rsvp", 404, "Event not found")
  /\ events = {}

\* The step with which the store accepts the write of the update in slot s.
UpdateWritten(s) ==
  /\ req[s].pc = "updateInsert"
  /\ req'[s] # req[s]
  /\ resp' = Reply("updateEvent", 200, Undefined)

\* C11: an update whose body supplies a title and nothing else changes
\* nothing when it arrives and, when its write succeeds, replaces the event
\* by one that differs in title, updatedAt and the store's revision only (so
\* not in maxParticipants), leaving every other event and every participant
\* (with its eventTitle snapshot) as it was.
C11_TitleOnlyUpdate ==
  [][/\ \A u \in Users, e \in EventIds \ {0}, b \in AllBodies :
          (b.fields = {"title"} /\ UpdateGet(u, e, b))
            => events' = events /\ participants' = participants
     /\ \A s \in Slots :
          (UpdateWritten(s) /\ req[s].body.fields = {"title"})
            => LET old == Doc(events, req[s].eid) IN
                 /\ \E title \in {Trim(t) : t \in Titles}, time \in 0..MaxTime :
                      events' = (events \ {old}) \cup
                        {[old EXCEPT !.title = title, !.updatedAt = time,
                                     !.rev = @ + 1]}
                 /\ Doc(events', req[s].eid).maxParticipants = old.maxParticipants
                 /\ participants' = participants]_vars

\* C11 happens: an update has just succeeded on an event with a capacity and
\* a participant whose eventTitle snapshot is not the event's title any more.
C11_Witness ==
  /\ resp = Reply("updateEvent", 200, Undefined)
  /\ \E e \in events, p \in participants :
       /\ p.eventId = e.id
       /\ p.eventTitle # e.title
       /\ e.maxParticipants # Null

\* C12 as stated: the event an update writes has, for title and
\* maxParticipants, the value the request supplied if it supplied the field
\* and the event's previous value if not, and the clock's reading as
\* updatedAt; a successful write stores exactly that event.
C12_SuppliedValuesTaken ==
  [][/\ \A u \in Users, e \in EventIds \ {0}, b \in AllBodies :
          (UpdateGet(u, e, b) /\ req' # req)
            => LET old == Doc(events, e)
                   new == req'[FreeSlot].ev
               IN /\ new.title = IF "title" \in b.fields THEN b.title ELSE old.title
                  /\ new.maxParticipants =
                       IF "maxParticipants" \in b.fields THEN b.maxParticipants
                       ELSE old.maxParticipants
                  /\ new.updatedAt = now
     /\ \A s \in Slots :
          UpdateWritten(s)
            => events' = (events \ {Doc(events, req[s].eid)})
                           \cup {[req[s].ev EXCEPT !.rev = @ + 1]}]_vars

\* C12 amended: as C12, but a supplied title is taken with its surrounding
\* whitespace trimmed.
C12_SuppliedValuesTrimmed ==
  [][/\ \A u \in Users, e \in EventIds \ {0}, b \in AllBodies :
          (UpdateGet(u, e, b) /\ req' # req)
            => LET old == Doc(events, e)
                   new == req'[FreeSlot].ev
               IN /\ new.title = IF "title" \in b.fields THEN Trim(b.title) ELSE old.title
                  /\ new.maxParticipants =
                       IF "maxParticipants" \in b.fields THEN b.maxParticipants
                       ELSE old.maxParticipants
                  /\ new.updatedAt = now
                  /\ new.id = old.id /\ new.rev = old.rev
                  /\ new.creatorId = old.creatorId
     /\ \A s \in Slots :
          UpdateWritten(s)
            => /\ Doc(events, req[s].eid).rev = req[s].ev.rev
               /\ events' = (events \ {Doc(events, req[s].eid)})
                              \cup {[req[s].ev EXCEPT !.rev = @ + 1]}]_vars

\* C12 happens: an update has just succeeded and the event carries a later
\* updatedAt than the clock read when it was created, a title that was
\* supplied with whitespace around it, and a capacity.
C12_Witness ==
  /\ resp = Reply("updateEvent", 200, Undefined)
  /\ \E e \in events :
       /\ e.rev = 2
       /\ e.updatedAt = MaxTime
       /\ e.title = Trim(<<" ", "b">>)
       /\ e.maxParticipants # Null

\* C13: when a destroy of the cascade has failed, the destroys of the other
\* participants stay under way, and a delete that then answers 200 has
\* removed the event and leaves no participant that references it.
C13_NoDanglingAfterPartialFailure ==
  [][\A s \in Slots :
       (/\ req[s].pc = "cascade"
        /\ req[s].rows # {}
        /\ req[s].failed
        /\ req'[s].pc = "idle")
         => /\ req[s].pending \subseteq inflight'
            /\ resp' = Reply("deleteEvent", 200, Undefined)
                 => /\ ~Has(events', req[s].eid)
                    /\ {p \in participants' : p.eventId = req[s].eid} = {}]_vars

\* C14: the write of an update that carries another revision than the
\* event has in the store (another update was written since this one read)
\* is answered 500 and changes no event and no participant; a write that is
\* accepted replaces the very revision its request read.
C14_StaleWriteFails ==
  [][\A s \in Slots :
       /\ (/\ req[s].pc = "updateInsert"
           /\ req'[s] # req[s]
           /\ Has(events, req[s].eid)
           /\ Doc(events, req[s].eid).rev # req[s].ev.rev)
            => /\ resp' = Reply("updateEvent", 500, "Server error updating event")
               /\ req'[s].pc = "idle"
               /\ events' = events /\ participants' = participants
       /\ UpdateWritten(s)
            => /\ Has(events, req[s].eid)
               /\ Doc(events, req[s].eid).rev = req[s].ev.rev
               /\ Doc(events', req[s].eid).rev = req[s].ev.rev + 1]_vars

\* C14 happens: two updates read revision 1 of an event, one has been
\* written, and the other has just been answered 500.
C14_Witness ==
  /\ resp = Reply("updateEvent", 500, "Server error updating event")
  /\ \E e \in events : e.rev = 2

\* The step with which the cancel request in slot s (by id, or by event and
\* user) has its participant destroyed and answers 200.
CancelDone(s) ==
  /\ req[s].pc \in {"cancelDestroy", "pairDestroy"}
  /\ req'[s] # req[s]
  /\ resp'.status = 200

\* C15: once a cancel has succeeded, the same cancel issued again - by the
\* participant's id, or by its event and the user - finds nothing: a cancel
\* by id of a participant that is gone, and a cancel by event and user that
\* matches no participant, are answered 404 and change nothing.
C15_CancelAgainNotFound ==
  [][/\ \A s \in Slots :
          CancelDone(s)
            => /\ CancelCheck(req[s].user, req[s].pid)' = 404
               /\ \A p \in participants \ participants' :
                    PairCheck(p.userId, p.eventId, p.userId)' = 404
     /\ \A u \in Users, p \in 1..(nextPid - 1) :
          (~Has(participants, p) /\ CancelGet(u, p))
            => /\ resp' = Reply("cancel", 404, "RSVP not found")
               /\ events' = events /\ participants' = participants
     /\ \A u \in Users, e \in EventIds \ {0} :
          (Matches(ByEvent(e), u) = {} /\ CancelPairView(u, e, u))
            => /\ resp' = Reply("cancelPair", 404, "RSVP not found")
               /\ events' = events /\ participants' = participants]_vars

\* The statuses of a failure response.
Failures == {400, 401, 403, 404, 500}

\* C16: one request at a time, store calls may fail.  A step that answers a
\* request other than an event delete with a failure changes no event and no
\* participant, and neither does any earlier step of such a request (a step
\* that sends no response), so the documents are as they were when the
\* request arrived.
C16_FailureLeavesStore ==
  [][/\ (resp'.status \in Failures /\ resp'.kind # "deleteEvent")
          => events' = events /\ participants' = participants
     /\ \A s \in Slots :
          (/\ req'[s] # req[s]
           /\ resp' = NoResp
           /\ req'[s].kind \in {"rsvp", "cancel", "cancelPair", "updateEvent"})
            => events' = events /\ participants' = participants]_vars

\* C16 happens: the insert of an RSVP has failed and the request has been
\* answered 500, with an event and a participant in the store.
C16_Witness ==
  /\ resp = Reply("rsvp", 500, "Server error creating RSVP")
  /\ events # {}
  /\ participants # {}

\* C17: the auth middleware answers a request without a credential, or with
\* one that does not verify, 401, and one whose credential verifies but names
\* a user that is not in the users database 404; it then runs no handler and
\* changes nothing; and a handler only ever starts for a user in the users
\* database.
C17_AuthRejects ==
  [][/\ \A cred \in Credentials :
          AuthReject(cred)
            => /\ resp'.status = IF cred.kind = "valid" THEN 404 ELSE 401
               /\ req' = req
               /\ events' = events /\ participants' = participants
     /\ \A s \in Slots :
          (IsIdle(s) /\ req'[s] # req[s]) => Has(users, req'[s].user)]_vars

\* C18: one request at a time.  For every caller, a cancel by the id of a
\* participant and a cancel by that participant's event and user get the
\* same answer from the checks of their handlers (both 403, both 404, or both
\* go on to destroy, and then the same participant) - for a participant in
\* the store, and for one that a cancel has just removed - and their
\* destroys answer alike and remove the same document.
C18_CancelRoutesEquivalent ==
  /\ [](\A c \in Users, p \in participants :
          /\ CancelCheck(c, p.id) = PairCheck(c, p.eventId, p.userId)
          /\ CancelCheck(c, p.id) = 200
               => FirstMatch(ByEvent(p.eventId), p.userId).id = p.id)
  /\ [][\A s \in Slots :
          /\ CancelDone(s)
               => /\ participants' = participants \ {Doc(participants, req[s].pid)}
                  /\ \A c \in Users, p \in participants \ participants' :
                       CancelCheck(c, p.id)' = PairCheck(c, p.eventId, p.userId)'
          /\ (/\ req[s].pc \in {"cancelDestroy", "pairDestroy"}
              /\ req'[s] # req[s])
               => resp'.status = IF Has(participants, req[s].pid) THEN 200 ELSE 404]_vars

\* C19: every failure response carries an `error` field.
C19_FailuresCarryError ==
  resp.status \in Failures => resp.error # Undefined

\* C20: when the view of the RSVP handler fails, the request is answered 500
\* and inserts nothing; a request goes on to its insert only when the
\* duplicate check and the capacity check, made on the rows of the view, have
\* both passed.
C20_ViewFailureIs500 ==
  [][\A s \in Slots :
       /\ RsvpViewFails(s)
            => /\ resp' = Reply("rsvp", 500, "Server error creating RSVP")
               /\ req'[s].pc = "idle"
               /\ participants' = participants
       /\ (req[s].pc = "rsvpView" /\ req'[s].pc = "rsvpInsert")
            => /\ ~req'[s].failed
               /\ ~AlreadyRSVPd(ByEvent(req[s].eid), req[s].user)
               /\ ~EventFull(req[s].ev, ByEvent(req[s].eid))]_vars

\* C21: an event is created with the authenticated caller as its creatorId,
\* whatever the body says, and no step changes the creatorId of an event that
\* stays in the store: not an update whose body supplies a creatorId either.
C21_CreatorIdFixed ==
  [][/\ \A u \in Callers, b \in OwnerBodies :
          (CreateEvent(u, b) /\ nextEid' # nextEid) =>
            Doc(events', nextEid).creatorId = u
     /\ \A e \in events, f \in events' : f.id = e.id => f.creatorId = e.creatorId
     /\ \A s \in Slots : UpdateWritten(s) =>
          Doc(events', req[s].eid).creatorId = Doc(events, req[s].eid).creatorId]_vars

\* The update handler has built the document it is about to write from a
\* body that names another user as creatorId.
C21_Witness ==
  \E s \in Slots :
    /\ req[s].pc = "updateInsert"
    /\ "creatorId" \in req[s].body.fields
    /\ req[s].body.creatorId # Doc(events, req[s].eid).creatorId
    /\ req[s].ev.rev = Doc(events, req[s].eid).rev

\* C24: the delete handler issues the destroy of the event (the step that
\* ends its cascade) only when none of the participant destroys it started
\* is still outstanding, also after one of them has failed.
C24_EventDestroyedAfterCascade ==
  [][\A s \in Slots :
       (req[s].pc = "cascade" /\ req'[s].pc = "idle") => req[s].pending = {}]_vars

\* C25: cancel by event and user, sent by that user: when no participant of
\* the event matches the user it answers 404 and starts nothing; when one or
\* several match, it goes on to destroy the first of them in the view's order
\* (the least identifier), and that destroy, when the store still holds the
\* document, removes this one document and no other and answers 200; when
\* another request has removed it meanwhile, the destroy removes nothing.
C25_PairCancelsFirstMatch ==
  [][/\ \A u \in Callers, e \in EventIds \ {0} :
          CancelPairView(u, e, u) =>
            IF \A p \in participants : ~(p.eventId = e /\ p.userId = u)
              THEN /\ resp' = Reply("cancelPair", 404, "RSVP not found")
                   /\ req' = req /\ participants' = participants
              ELSE \E p \in participants :
                     /\ p.eventId = e /\ p.userId = u
                     /\ \A q \in participants :
                          (q.eventId = e /\ q.userId = u) => p.id <= q.id
                     /\ req'[FreeSlot].pc = "pairDestroy"
                     /\ req'[FreeSlot].pid = p.id
                     /\ participants' = participants
     /\ \A s \in Slots :
          (req[s].pc = "pairDestroy" /\ req'[s] # req[s]) =>
            IF Has(participants, req[s].pid)
              THEN /\ participants' = participants \ {Doc(participants, req[s].pid)}
                   /\ Cardinality(participants') = Cardinality(participants) - 1
                   /\ resp' = Reply("cancelPair", 200, Undefined)
              ELSE participants' = participants /\ resp'.status # 200]_vars

\* The lookup returned two participants of the caller's pair and the handler
\* is destroying the first, both still being in the store.
C25_Witness ==
  \E s \in Slots, p, q \in participants :
    /\ req[s].pc = "pairDestroy"
    /\ p.id < q.id
    /\ p.eventId = req[s].eid /\ q.eventId = req[s].eid
    /\ p.userId = req[s].user /\ q.userId = req[s].user
    /\ req[s].pid = p.id

\* C26: an update by the creator whose body sets maxParticipants to a value
\* below the number of participants the event has is not rejected, and its
\* write answers 200, stores that capacity and leaves every participant in
\* place.
C26_CapacityBelowCountAccepted ==
  [][/\ \A u \in Callers, e \in EventIds \ {0}, b \in AllBodies :
          ( /\ UpdateGet(u, e, b)
            /\ Has(events, e) /\ Doc(events, e).creatorId = u
            /\ b.fields = {"maxParticipants"}
            /\ b.maxParticipants >= 1
            /\ b.maxParticipants < Cardinality(ByEvent(e)) ) =>
              /\ req'[FreeSlot].pc = "updateInsert"
              /\ req'[FreeSlot].ev.maxParticipants = b.maxParticipants
     /\ \A s \in Slots :
          ( /\ req[s].pc = "updateInsert" /\ req'[s] # req[s]
            /\ req[s].ev.maxParticipants # Null
            /\ req[s].ev.maxParticipants < Cardinality(ByEvent(req[s].eid)) ) =>
              /\ resp' = Reply("updateEvent", 200, Undefined)
              /\ participants' = participants
              /\ Doc(events', req[s].eid).maxParticipants = req[s].ev.maxParticipants]_vars

\* An update has been answered 200 and the event now has more participants
\* than its capacity.
C26_Witness ==
  /\ resp = Reply("updateEvent", 200, Undefined)
  /\ \E ev \in events :
       /\ ev.maxParticipants # Null
       /\ Cardinality(ByEvent(ev.id)) > ev.maxParticipants

\* The delete request of slot s ends: its destroy of the event is answered.
DeleteEnds(s) == req[s].pc = "cascade" /\ req'[s].pc = "idle"

\* The step removes event e from the store.
Destroys(e) == Has(events, e) /\ ~Has(events', e)

\* C27 as stated: a delete answers 200 only if its own destroy removed the
\* event; whenever that destroy fails, the answer is 500, the event is still
\* in the store and the participants are as the cascade left them.
C27_FailedDestroyIs500 ==
  [][\A s \in Slots :
       DeleteEnds(s) =>
         /\ resp'.status = 200 => Destroys(req[s].eid)
         /\ ~Destroys(req[s].eid) =>
              /\ resp' = Reply("deleteEvent", 500, "Server error deleting event")
              /\ Has(events', req[s].eid)
              /\ participants' = participants]_vars

\* C27: a delete answers 200 exactly if its own destroy removed the event.
\* When the destroy fails on an event that is in the store - its revision is
\* no longer the one the request read - the answer is 500 and the event stays
\* as it is; when it fails because the event is already gone, the answer is
\* 404 'Event not found'.  Either way the participants are as the cascade
\* left them.
C27_FailedDestroyIs500Or404 ==
  [][\A s \in Slots :
       DeleteEnds(s) =>
         /\ resp'.status = 200 <=> Destroys(req[s].eid)
         /\ (Has(events, req[s].eid) /\ Doc(events, req[s].eid).rev # req[s].ev.rev) =>
              ~Destroys(req[s].eid)
         /\ ~Destroys(req[s].eid) =>
              /\ events' = events
              /\ participants' = participants
              /\ resp' = IF Has(events, req[s].eid)
                           THEN Reply("deleteEvent", 500, "Server error deleting event")
                           ELSE Reply("deleteEvent", 404, "Event not found")]_vars

\* A delete has been answered 500: the event, updated since the delete read
\* it, is in the store and the participant the cascade destroyed is not.
C27_Witness ==
  /\ resp = Reply("deleteEvent", 500, "Server error deleting event")
  /\ \E ev \in events : ev.rev > 1
  /\ participants = {}
  /\ nextPid > 1

\* C28: an RSVP request for event e is answered 404 "Event not found" only
\* when e is not in the store, whether the read of the event is answered or
\* fails.
C28_Rsvp404OnlyIfMissing ==
  [][\A u \in Users, e \in EventIds \ {0} :
       ((RsvpGetEvent(u, e) \/ RsvpGetEventFails(u, e)) /\ Has(events, e)) =>
         resp' # Reply("rsvp", 404, "Event not found")]_vars

C30_CancelReleasesSlot ==
  [][\A s \in Slots :
       CancelDone(s) =>
         /\ Has(participants, req[s].pid)
         /\ LET p == Doc(participants, req[s].pid)
                e == p.eventId
                u == p.userId
                after == {q \in participants' : q.eventId = e}
            IN /\ u = req[s].user
               /\ events' = events
               /\ Cardinality(after) = Cardinality(ByEvent(e)) - 1
               /\ ~AlreadyRSVPd(after, u)
               /\ (Has(events, e) /\ EventFull(Doc(events, e), ByEvent(e))) =>
                    /\ ~EventFull(Doc(events, e), after)
                    /\ EventFull(Doc(events, e),
                                 after \cup {NewParticipant(nextPid, Doc(events, e), e, u)})]_vars

\* C30: one request at a time.  When a cancel (by id, or by event and user)
\* of user U's participant for event E has succeeded, E has one participant
\* fewer, the duplicate check of the RSVP handler no longer fires for U and
\* E, and if E had exactly as many participants as its capacity, its capacity
\* check does not fire for the next RSVP and fires again once one more
\* participant has been admitted; if E had more participants than its
\* capacity (an update lowered it), the capacity check still fires.
C30_CancelReleasesSlotAtCapacity ==
  [][\A s \in Slots :
       CancelDone(s) =>
         /\ Has(participants, req[s].pid)
         /\ LET p == Doc(participants, req[s].pid)
                e == p.eventId
                u == p.userId
                after == {q \in participants' : q.eventId = e}
            IN /\ u = req[s].user
               /\ events' = events
               /\ Cardinality(after) = Cardinality(ByEvent(e)) - 1
               /\ ~AlreadyRSVPd(after, u)
               /\ (Has(events, e) /\ EventFull(Doc(events, e), ByEvent(e))) =>
                    IF Cardinality(ByEvent(e)) = Doc(events, e).maxParticipants
                      THEN /\ ~EventFull(Doc(events, e), after)
                           /\ EventFull(Doc(events, e),
                                        after \cup {NewParticipant(nextPid, Doc(events, e), e, u)})
                      ELSE EventFull(Doc(events, e), after)]_vars

\* An event created with capacity 1 and never updated was full, its
\* participant was cancelled, and the next RSVP has just been admitted.
C30_Witness ==
  /\ resp = Reply("rsvp", 201, Undefined)
  /\ nextPid = 3
  /\ \E ev \in events :
       /\ ev.rev = 1 /\ ev.maxParticipants = 1
       /\ Cardinality(ByEvent(ev.id)) = 1

\* C22: the users database never holds two documents with one email.
C22_EmailUnique ==
  \A a, b \in users : a.email = b.email => a.id = b.id

\* C23: when initDatabases has completed without error, every database
\* exists and holds its design document with its views.
C23_InitLeavesViews ==
  init.pc = "done" => \A i \in 1..Len(DbKeys) : couch[i] = ReadyDb(DbKeys[i])

====
